---- MODULE Spec2Model ----
(***************************************************************************)
(* Subtitle translation pipeline of LLM_Translate: translate/main.py and   *)
(* translate/OpenAITranslator.py.                                          *)
(*                                                                         *)
(* Strings are sequences of one-character strings, so that strip, split    *)
(* and the regular expressions of the source are computed character by     *)
(* character.  Positions in a file are zero-based as in the source.        *)
(***************************************************************************)
EXTENDS Integers, Sequences, FiniteSets, TLC

\* ------------------------------------------------------------------ bounds
\* longest input file, in lines
MaxLines == 2
\* largest positive chunk_size tried
MaxChunkSize == 2
\* number of non-positive chunk_size values tried (0, -1, ...)
MaxNonPositive == 2
\* largest max_workers tried
MaxWorkers == 2
\* longest input file and largest chunk_size on which chunking alone is run
MaxSplitLines == 5
MaxSplitSize == 4
\* longest directory listing
MaxDirFiles == 2
\* longest response, in pieces, and largest expected_length, for parsing alone
MaxPieces == 3
MaxExpected == 2

\* ------------------------------------------------- characters and strings
Digits == {"0", "1", "2", "3", "4", "5", "6", "7", "8", "9"}

\* what str.strip() removes and what \s matches
Whitespace == {" ", "\t", "\n", "\r", "\f"}

\* the character class of the fourth test of should_translate, without \s
Punctuation == {".", ",", "!", "?", ";", ":", "\"", "'", "-"}

Min(a, b) == IF a < b THEN a ELSE b

Max(a, b) == IF a > b THEN a ELSE b

\* str.strip(): drop leading and trailing whitespace
strip(s) ==
    LET keep == {i \in 1..Len(s) : s[i] \notin Whitespace}
    IN  IF keep = {} THEN <<>>
        ELSE SubSeq(s, CHOOSE i \in keep : \A j \in keep : i <= j,
                       CHOOSE i \in keep : \A j \in keep : i >= j)

\* str.rstrip('\n'): drop every trailing newline
rstrip_newline(s) ==
    LET keep == {i \in 1..Len(s) : s[i] # "\n"}
    IN  IF keep = {} THEN <<>>
        ELSE SubSeq(s, 1, CHOOSE i \in keep : \A j \in keep : i >= j)

\* str.isdigit(): non-empty and digits only
isdigit(s) == Len(s) > 0 /\ \A i \in 1..Len(s) : s[i] \in Digits

\* first index at which pat occurs in s, 0 when it does not occur
find(s, pat) ==
    LET hits == {i \in 1..(Len(s) - Len(pat) + 1) :
                    SubSeq(s, i, i + Len(pat) - 1) = pat}
    IN  IF hits = {} THEN 0 ELSE CHOOSE i \in hits : \A j \in hits : i <= j

\* str.split(sep) for a one-character separator: k separators, k+1 pieces
RECURSIVE split(_, _)
split(s, sep) ==
    LET i == find(s, <<sep>>)
    IN  IF i = 0 THEN <<s>>
        ELSE <<SubSeq(s, 1, i - 1)>> \o split(SubSeq(s, i + 1, Len(s)), sep)

\* sep.join(parts)
RECURSIVE join(_, _)
join(sep, parts) ==
    IF Len(parts) = 0 THEN <<>>
    ELSE IF Len(parts) = 1 THEN parts[1]
    ELSE parts[1] \o <<sep>> \o join(sep, Tail(parts))

\* ---------------------------------------------------------- main.py: lines
\* ^\d{2}:\d{2}:\d{2},\d{3}\s-->\s\d{2}:\d{2}:\d{2},\d{3}$ as one class per
\* character: "d" a digit, "s" whitespace, anything else the character itself
TimestampHalf == <<"d", "d", ":", "d", "d", ":", "d", "d", ",", "d", "d", "d">>

TimestampPattern == TimestampHalf \o <<"s", "-", "-", ">", "s">> \o TimestampHalf

match_timestamp(s) ==
    /\ Len(s) = Len(TimestampPattern)
    /\ \A i \in 1..Len(s) :
          CASE TimestampPattern[i] = "d" -> s[i] \in Digits
            [] TimestampPattern[i] = "s" -> s[i] \in Whitespace
            [] OTHER -> s[i] = TimestampPattern[i]

\* re.fullmatch(r"[\s\.,!?;:\"'-]+", line)
fullmatch_punctuation(s) ==
    Len(s) > 0 /\ \A i \in 1..Len(s) : s[i] \in (Whitespace \cup Punctuation)

should_translate(line) ==
    LET l == strip(line)
    IN  /\ Len(l) > 0
        /\ ~isdigit(l)
        /\ ~match_timestamp(l)
        /\ ~fullmatch_punctuation(l)

\* the file is the sequence of its physical lines, terminator included
read_file_lines(file) == [i \in 1..Len(file) |-> rstrip_newline(file[i])]

\* (idx, line) for the lines to translate, idx zero-based, in file order
RECURSIVE get_pending_from(_, _)
get_pending_from(lines, i) ==
    IF i > Len(lines) THEN <<>>
    ELSE (IF should_translate(lines[i]) THEN <<(<<i - 1, lines[i]>>)>> ELSE <<>>)
         \o get_pending_from(lines, i + 1)

\* a variant that forgets the should_translate test: every line is pending
get_pending_lines_unfiltered(lines) ==
    [i \in 1..Len(lines) |-> <<i - 1, lines[i]>>]

get_pending_lines(lines) == get_pending_from(lines, 1)

\* list(range(start, stop, step)) for step # 0
RECURSIVE range(_, _, _)
range(start, stop, step) ==
    IF (step > 0 /\ start < stop) \/ (step < 0 /\ start > stop)
    THEN <<start>> \o range(start + step, stop, step)
    ELSE <<>>

\* s[a:b] of a list, with the clamping and the negative indices of Python
slice(s, a, b) ==
    LET n  == Len(s)
        lo == IF a < 0 THEN Max(a + n, 0) ELSE Min(a, n)
        hi == IF b < 0 THEN Max(b + n, 0) ELSE Min(b, n)
    IN  SubSeq(s, lo + 1, hi)

\* a variant whose slices end one element early
split_into_chunks_short(pending_lines, chunk_size) ==
    IF chunk_size = 0 THEN [raised |-> TRUE, value |-> <<>>]
    ELSE LET starts == range(0, Len(pending_lines), chunk_size)
         IN  [raised |-> FALSE,
              value  |-> [k \in 1..Len(starts) |->
                            slice(pending_lines, starts[k],
                                  starts[k] + chunk_size - 1)]]

\* range() raises ValueError for a zero step and nothing catches it: the
\* result is either the raised error or the returned list of chunks
split_into_chunks(pending_lines, chunk_size) ==
    IF chunk_size = 0 THEN [raised |-> TRUE, value |-> <<>>]
    ELSE LET starts == range(0, Len(pending_lines), chunk_size)
         IN  [raised |-> FALSE,
              value  |-> [k \in 1..Len(starts) |->
                            slice(pending_lines, starts[k], starts[k] + chunk_size)]]

\* texts = [text for _, text in chunk]
texts_of(chunk) == [j \in 1..Len(chunk) |-> chunk[j][2]]

\* a variant keyed by the place in the chunk instead of the place in the file
translate_chunk_by_place(chunk, translated_texts) ==
    [p \in 0..(Min(Len(chunk), Len(translated_texts)) - 1) |->
        translated_texts[p + 1]]

\* {idx: translated_text for (idx, _), translated_text in zip(chunk, translated_texts)}
\* zip stops at the shorter argument; a later pair with the same idx wins
translate_chunk(chunk, translated_texts) ==
    LET n == Min(Len(chunk), Len(translated_texts))
    IN  [p \in {chunk[j][1] : j \in 1..n} |->
            translated_texts[CHOOSE j \in 1..n :
                                /\ chunk[j][1] = p
                                /\ \A k \in 1..n : chunk[k][1] = p => k <= j]]

\* a variant that replaces the mapping instead of merging into it
update_replace(all, translations) == translations

\* all_translations.update(translations)
update(all, translations) ==
    [p \in (DOMAIN all) \cup (DOMAIN translations) |->
        IF p \in DOMAIN translations THEN translations[p] ELSE all[p]]

\* a variant without the else branch: untranslated lines are dropped
RECURSIVE translated_from(_, _, _)
translated_from(lines, all, i) ==
    IF i > Len(lines) THEN <<>>
    ELSE (IF (i - 1) \in DOMAIN all THEN <<all[i - 1]>> ELSE <<>>)
         \o translated_from(lines, all, i + 1)

build_final_lines_translated_only(lines, all) == translated_from(lines, all, 1)

\* the loop of lines 72-77 of do_translate
build_final_lines(lines, all) ==
    [i \in 1..Len(lines) |->
        IF (i - 1) \in DOMAIN all THEN all[i - 1] ELSE lines[i]]

\* ------------------------------------------------------ OpenAITranslator.py
max_retries == 3

ThinkMarker == <<"<", "/", "t", "h", "i", "n", "k", ">">>

ParseError == <<"[", "P", "A", "R", "S", "E", " ", "E", "R", "R", "O", "R", "]">>

\* re.split(r"</think>", response, 1)[-1]
after_think(response) ==
    LET i == find(response, ThinkMarker)
    IN  IF i = 0 THEN response
        ELSE SubSeq(response, i + Len(ThinkMarker), Len(response))

\* number of leading digits of a line
leading_digits(line) ==
    LET stop == {i \in 1..Len(line) : line[i] \notin Digits}
    IN  IF stop = {} THEN Len(line)
        ELSE (CHOOSE i \in stop : \A j \in stop : i <= j) - 1

\* re.match(r"^\d+\.\s*(.*)", line) succeeds
numbered(line) ==
    LET d == leading_digits(line)
    IN  d >= 1 /\ d < Len(line) /\ line[d + 1] = "."

\* match.group(1).strip() of a line that matches
numbered_text(line) == strip(SubSeq(line, leading_digits(line) + 2, Len(line)))

\* a variant that assigns each text to the place its number names
digit_value(ch) ==
    CASE ch = "1" -> 1 [] ch = "2" -> 2 [] ch = "3" -> 3 [] ch = "4" -> 4
      [] ch = "5" -> 5 [] ch = "6" -> 6 [] ch = "7" -> 7 [] ch = "8" -> 8
      [] ch = "9" -> 9 [] OTHER -> 0

parsed_lines_by_label(response) ==
    LET ls == split(strip(after_think(response)), "\n")
        at(k) == {i \in 1..Len(ls) :
                    numbered(ls[i]) /\ leading_digits(ls[i]) = 1
                    /\ digit_value(ls[i][1]) = k}
        n  == Cardinality({i \in 1..Len(ls) : numbered(ls[i])})
    IN  [k \in 1..n |->
            IF at(k) = {} THEN <<>>
            ELSE numbered_text(ls[CHOOSE i \in at(k) : \A j \in at(k) : i <= j])]

\* parsed_lines: the texts of the numbered lines, in order of appearance
parsed_lines_of(response) ==
    LET ls == split(strip(after_think(response)), "\n")
        RECURSIVE scan(_)
        scan(i) == IF i > Len(ls) THEN <<>>
                   ELSE (IF numbered(ls[i]) THEN <<numbered_text(ls[i])>> ELSE <<>>)
                        \o scan(i + 1)
    IN  scan(1)

\* a variant that keeps the lines beyond expected_length
_parse_response_untruncated(response, expected_length) ==
    LET parsed_lines == parsed_lines_of(response)
    IN  IF Len(parsed_lines) < expected_length
        THEN parsed_lines \o
             [k \in 1..(expected_length - Len(parsed_lines)) |-> ParseError]
        ELSE parsed_lines

_parse_response(response, expected_length) ==
    LET parsed_lines == parsed_lines_of(response)
    IN  IF Len(parsed_lines) < expected_length
        THEN parsed_lines \o
             [k \in 1..(expected_length - Len(parsed_lines)) |-> ParseError]
        ELSE SubSeq(parsed_lines, 1, expected_length)

_is_valid_translation(texts, parsed) == Len(parsed) = Len(texts)

\* ------------------------------------------------------------------ inputs
LineIndex == <<"1", "\n">>

LineTimestamp ==
    <<"0", "0", ":", "0", "0", ":", "0", "1", ",", "0", "0", "0",
      " ", "-", "-", ">", " ",
      "0", "0", ":", "0", "0", ":", "0", "2", ",", "0", "0", "0", "\n">>

LineBlank == <<"\n">>

LinePunct == <<"?", "!", "\n">>

LineText == <<"H", "i", "\n">>

\* one physical line of each kind that should_translate tells apart
LinePool == {LineIndex, LineTimestamp, LineBlank, LinePunct, LineText}

Files == UNION {[1..n -> LinePool] : n \in 0..MaxLines}

\* longer files of two kinds of lines, for chunking alone
SplitFiles == UNION {[1..n -> {LineText, LineBlank}] : n \in 0..MaxSplitLines}

\* "1. A", "1. A\n2. B", "1. A\n2. B\n3. C" and "1."
RespOne == <<"1", ".", " ", "A">>

RespTwo == RespOne \o <<"\n", "2", ".", " ", "B">>

RespThree == RespTwo \o <<"\n", "3", ".", " ", "C">>

RespBlank == <<"1", ".">>

Responses == {RespOne, RespTwo, RespThree, RespBlank}

\* what one call of _call_openai does: it raises, or it returns the content
\* of the first choice, which is a string or None
Outcomes ==
    {[kind |-> "raise", content |-> <<>>], [kind |-> "none", content |-> <<>>]}
    \cup {[kind |-> "text", content |-> r] : r \in Responses}

\* -------------------------------------------------------- main.py: files
\* a variant of open that gives an empty file where the file cannot be read
read_result_swallow(file, readable) ==
    IF readable THEN [raised |-> FALSE, value |-> read_file_lines(file)]
    ELSE [raised |-> FALSE, value |-> <<>>]

\* open(file_path, 'r') raises for a file that cannot be read and nothing in
\* do_translate or process_directory catches it
read_result(file, readable) ==
    IF readable THEN [raised |-> FALSE, value |-> read_file_lines(file)]
    ELSE [raised |-> TRUE, value |-> <<>>]

\* str.endswith(suffix)
endswith(s, suffix) ==
    Len(s) >= Len(suffix) /\ SubSeq(s, Len(s) - Len(suffix) + 1, Len(s)) = suffix

\* str.replace(old, new): every occurrence, left to right, without overlap
RECURSIVE replace(_, _, _)
replace(s, old, new) ==
    LET i == find(s, old)
    IN  IF i = 0 THEN s
        ELSE SubSeq(s, 1, i - 1) \o new
             \o replace(SubSeq(s, i + Len(old), Len(s)), old, new)

SrtSuffix == <<".", "s", "r", "t">>

CnSuffix == <<"_", "c", "n", ".", "s", "r", "t">>

\* file_name.endswith(".srt")
eligible(file_name) == endswith(file_name, SrtSuffix)

\* file_name.replace(".srt", "_cn.srt"), the name of the output file
output_name(file_name) == replace(file_name, SrtSuffix, CnSuffix)

\* the names os.listdir may return: "a.srt", "b.srt" and "a.txt"
NameA == <<"a", ".", "s", "r", "t">>

NameB == <<"b", ".", "s", "r", "t">>

NameT == <<"a", ".", "t", "x", "t">>

Names == {NameA, NameB, NameT}

\* what the files of the input directory hold
DirContent(file_name) ==
    IF file_name = NameB THEN <<LineIndex, LineText>> ELSE <<LineText>>

\* the text of an output file left by an earlier run
OldContent == <<"o", "l", "d">>

\* ------------------------------------------------------------------- state
VARIABLES
    input_file,        \* the physical lines of the input file
    input_readable,    \* whether open() of the input file succeeds
    chunk_size,        \* configuration
    max_workers,       \* configuration
    pc,                \* where the main thread is: "idle" (process_directory,
                       \* between files), "start", "pool", "written", "raised"
    lines,             \* do_translate's locals
    pending_lines,
    chunks,
    futures,           \* one record per submitted chunk
    all_translations,
    final_lines,
    output_file,       \* [exists, content]
    dir,               \* process_directory: [listing, unreadable, out, cursor,
                       \* invoked]
    parse              \* one call of _parse_response: [response,
                       \* expected_length, parsed, done]

vars == <<input_file, input_readable, chunk_size, max_workers, pc, lines,
          pending_lines, chunks, futures, all_translations, final_lines,
          output_file, dir, parse>>

\* what an action of do_translate leaves alone besides its locals
config == <<input_file, input_readable, chunk_size, max_workers, parse>>

\* a future as submitted: not yet picked up by a worker
NewFuture ==
    [st |-> "queued", batches |-> 0, attempt |-> 0, accepted |-> FALSE,
     response |-> <<>>, translated_texts |-> <<>>, translations |-> <<>>]

\* a variant in which a worker is never given back to the pool
Running_never_freed == {c \in 1..Len(futures) : futures[c].st # "queued"}

\* the chunks in flight: translate_chunk has started and has not returned
Running == {c \in 1..Len(futures) : futures[c].st = "running"}

\* no directory is being processed, no response is being parsed
NoDir ==
    [listing |-> <<>>, unreadable |-> {}, out |-> <<>>, cursor |-> 0,
     invoked |-> <<>>]

NoParse ==
    [response |-> <<>>, expected_length |-> 0, parsed |-> <<>>, done |-> FALSE]

\* the locals of do_translate before its first statement
FreshLocals ==
    /\ lines = <<>>
    /\ pending_lines = <<>>
    /\ chunks = <<>>
    /\ futures = <<>>
    /\ all_translations = <<>>
    /\ final_lines = <<>>
    /\ output_file = [exists |-> FALSE, content |-> <<>>]

\* do_translate is entered with a file and a configuration
Entered(files, readables, sizes, workers) ==
    /\ input_file \in files
    /\ input_readable \in readables
    /\ chunk_size \in sizes
    /\ max_workers \in workers
    /\ pc = "start"
    /\ FreshLocals
    /\ dir = NoDir
    /\ parse = NoParse

Init == Entered(Files, BOOLEAN, (1 - MaxNonPositive)..MaxChunkSize, 1..MaxWorkers)

InitSplit == Entered(SplitFiles, {TRUE}, (1 - MaxNonPositive)..MaxSplitSize, {1})

\* do_translate, lines 52-64: read, classify, chunk, submit every chunk
Prepare ==
    /\ pc = "start"
    /\ LET rd  == read_result(input_file, input_readable)
           pl  == get_pending_lines(rd.value)
           res == IF rd.raised THEN [raised |-> TRUE, value |-> <<>>]
                  ELSE split_into_chunks(pl, chunk_size)
       IN  /\ lines' = rd.value
           /\ pending_lines' = pl
           /\ chunks' = res.value
           /\ futures' = [c \in 1..Len(res.value) |-> NewFuture]
           /\ pc' = IF res.raised THEN "raised" ELSE "pool"
    /\ UNCHANGED <<config, all_translations, final_lines, output_file, dir>>

\* a variant of the pool that never bounds the number of threads
worker_free_unbounded == TRUE

\* ThreadPoolExecutor(max_workers): a chunk is taken only by an idle worker
worker_free == Cardinality(Running) < max_workers

\* a free worker takes the oldest queued chunk, enters translate_chunk and
\* from there translate_batch
Start(c) ==
    /\ pc = "pool"
    /\ futures[c].st = "queued"
    /\ \A d \in 1..(c - 1) : futures[d].st # "queued"
    /\ worker_free
    /\ futures' = [futures EXCEPT ![c].st = "running",
                                  ![c].batches = futures[c].batches + 1]
    /\ dir' = IF dir.cursor = 0 THEN dir
              ELSE [dir EXCEPT !.invoked[dir.cursor] = dir.invoked[dir.cursor] + 1]
    /\ UNCHANGED <<config, pc, lines, pending_lines, chunks, all_translations,
                   final_lines, output_file>>

\* one iteration of the loop of translate_batch for the texts of chunk c.
\* attempt_result is what the iteration yields: [returned, value]
attempt_result(texts, outcome) ==
    IF outcome.kind # "text"
    THEN [returned |-> FALSE, value |-> <<>>]
    ELSE LET parsed == _parse_response(outcome.content, Len(texts))
         IN  IF _is_valid_translation(texts, parsed)
             THEN [returned |-> TRUE, value |-> parsed]
             ELSE [returned |-> FALSE, value |-> <<>>]

\* a variant that returns what the docstring of translate_batch announces
TranslationFailed ==
    <<"[", "T", "R", "A", "N", "S", "L", "A", "T", "I", "O", "N", " ",
      "F", "A", "I", "L", "E", "D", "]">>

fallback_failed(texts) == [j \in 1..Len(texts) |-> TranslationFailed]

\* line 42 of translate_batch: what it returns once every attempt has failed
fallback(texts) == texts

\* a variant of the loop that runs once more
exhausted_late(n) == n > max_retries

\* range(1, self.max_retries + 1) is over after the attempt numbered n
exhausted(n) == n >= max_retries

\* translate_batch where chunk c stands: after this attempt it has returned
\* parsed, or it has returned texts (attempts exhausted), or it loops
Attempt(c, outcome) ==
    /\ pc = "pool"
    /\ futures[c].st = "running"
    /\ LET texts == texts_of(chunks[c])
           n     == futures[c].attempt + 1
           r     == attempt_result(texts, outcome)
       IN  futures' =
             IF r.returned
             THEN [futures EXCEPT ![c] =
                     [@ EXCEPT !.st = "done", !.attempt = n, !.accepted = TRUE,
                               !.response = outcome.content,
                               !.translated_texts = r.value,
                               !.translations = translate_chunk(chunks[c], r.value)]]
             ELSE IF exhausted(n)
             THEN [futures EXCEPT ![c] =
                     [@ EXCEPT !.st = "done", !.attempt = n,
                               !.translated_texts = fallback(texts),
                               !.translations =
                                   translate_chunk(chunks[c], fallback(texts))]]
             ELSE [futures EXCEPT ![c].attempt = n]
    /\ UNCHANGED <<config, pc, lines, pending_lines, chunks, all_translations,
                   final_lines, output_file, dir>>

\* a variant in which finished chunks are merged from several threads
main_free_always == TRUE

\* the loop over as_completed runs in the one thread of do_translate: it
\* takes the next finished future only when the body is over for the last
main_free == \A c \in 1..Len(futures) : futures[c].st # "merging"

\* do_translate, lines 66-67: as_completed hands over a finished future and
\* its result is taken
MergeBegin(c) ==
    /\ pc = "pool"
    /\ futures[c].st = "done"
    /\ main_free
    /\ futures' = [futures EXCEPT ![c].st = "merging"]
    /\ UNCHANGED <<config, pc, lines, pending_lines, chunks, all_translations,
                   final_lines, output_file, dir>>

\* do_translate, lines 68-69: the result is merged into all_translations
MergeEnd(c) ==
    /\ pc = "pool"
    /\ futures[c].st = "merging"
    /\ all_translations' = update(all_translations, futures[c].translations)
    /\ futures' = [futures EXCEPT ![c].st = "merged"]
    /\ UNCHANGED <<config, pc, lines, pending_lines, chunks, final_lines,
                   output_file, dir>>

\* open(output_file, 'w') and write: the file of that name holds content
write_file(out, name, content) ==
    [n \in (DOMAIN out) \cup {name} |-> IF n = name THEN content ELSE out[n]]

\* do_translate, lines 71-81: rebuild the lines and write the output file
WriteOutput ==
    /\ pc = "pool"
    /\ \A c \in 1..Len(futures) : futures[c].st = "merged"
    /\ final_lines' = build_final_lines(lines, all_translations)
    /\ output_file' = [exists |-> TRUE,
                       content |-> join("\n", build_final_lines(lines, all_translations))]
    /\ dir' = IF dir.cursor = 0 THEN dir
              ELSE [dir EXCEPT !.out =
                      write_file(dir.out, output_name(dir.listing[dir.cursor]),
                                 join("\n", build_final_lines(lines, all_translations)))]
    /\ pc' = "written"
    /\ UNCHANGED <<config, lines, pending_lines, chunks, futures, all_translations>>

Next ==
    \/ Prepare
    \/ \E c \in 1..Len(futures) : Start(c)
    \/ \E c \in 1..Len(futures) : \E outcome \in Outcomes : Attempt(c, outcome)
    \/ \E c \in 1..Len(futures) : MergeBegin(c)
    \/ \E c \in 1..Len(futures) : MergeEnd(c)
    \/ WriteOutput

Spec == Init /\ [][Next]_vars

\* a step of a worker, or of the main thread once the chunks are submitted
PoolStep ==
    \/ \E c \in 1..Len(futures) : Start(c)
    \/ \E c \in 1..Len(futures) : \E outcome \in Outcomes : Attempt(c, outcome)
    \/ \E c \in 1..Len(futures) : MergeBegin(c)
    \/ \E c \in 1..Len(futures) : MergeEnd(c)
    \/ WriteOutput

\* the threads keep running and every remote call returns or raises (it
\* carries a timeout): as long as such a step is possible, one is taken
FairSpec == Spec /\ WF_vars(PoolStep)

\* the first step of do_translate alone, on longer files
NextSplit == Prepare

SpecSplit == InitSplit /\ [][NextSplit]_vars

\* ------------------------------------------------- main.py: directories
\* a variant that never finds the output file
path_exists_never(out, name) == FALSE

\* os.path.exists(output_file)
path_exists(out, name) == name \in DOMAIN out

\* the listings os.listdir may return: distinct names, in any order
Listings ==
    {l \in UNION {[1..n -> Names] : n \in 0..MaxDirFiles} :
        \A i, j \in 1..Len(l) : i # j => l[i] # l[j]}

ListedNames(l) == {l[i] : i \in 1..Len(l)}

\* a directory before process_directory: some files cannot be read, some
\* output files are there already
Directories ==
    {[listing |-> l, unreadable |-> u, out |-> [n \in o |-> OldContent],
      cursor |-> 0, invoked |-> [k \in 1..Len(l) |-> 0]] :
        l \in Listings, u \in SUBSET Names, o \in SUBSET {output_name(n) : n \in Names}}

InitDir ==
    /\ dir \in {d \in Directories :
                  /\ d.unreadable \subseteq ListedNames(d.listing)
                  /\ DOMAIN d.out \subseteq
                        {output_name(n) : n \in ListedNames(d.listing)}}
    /\ input_file = <<>>
    /\ input_readable = TRUE
    /\ chunk_size \in 1..MaxChunkSize
    /\ max_workers = 1
    /\ pc = "idle"
    /\ FreshLocals
    /\ parse = NoParse

\* the main thread is in the loop of process_directory, before an entry
AtEntry ==
    /\ pc \in {"idle", "written"}
    /\ dir.cursor < Len(dir.listing)

\* the locals of the last call of do_translate are gone
DropLocals ==
    /\ lines' = <<>>
    /\ pending_lines' = <<>>
    /\ chunks' = <<>>
    /\ futures' = <<>>
    /\ all_translations' = <<>>
    /\ final_lines' = <<>>
    /\ output_file' = [exists |-> FALSE, content |-> <<>>]

\* process_directory, lines 92-100: the entry is not a .srt file, or its
\* output file exists: on to the next entry
Skip ==
    /\ AtEntry
    /\ LET name == dir.listing[dir.cursor + 1]
       IN  \/ ~eligible(name)
           \/ path_exists(dir.out, output_name(name))
    /\ dir' = [dir EXCEPT !.cursor = dir.cursor + 1]
    /\ pc' = "idle"
    /\ DropLocals
    /\ UNCHANGED config

\* process_directory, lines 92-103: do_translate is called for the entry
Enter ==
    /\ AtEntry
    /\ LET name == dir.listing[dir.cursor + 1]
       IN  /\ eligible(name)
           /\ ~path_exists(dir.out, output_name(name))
           /\ input_file' = DirContent(name)
           /\ input_readable' = (name \notin dir.unreadable)
    /\ dir' = [dir EXCEPT !.cursor = dir.cursor + 1]
    /\ pc' = "start"
    /\ DropLocals
    /\ UNCHANGED <<chunk_size, max_workers, parse>>

NextDir ==
    \/ Skip
    \/ Enter
    \/ Next

SpecDir == InitDir /\ [][NextDir]_vars

\* ---------------------------------------- OpenAITranslator.py: responses
\* pieces of a response: "1. A\n", "3. B\n", "2.\n", "x" and the marker
PieceOne == <<"1", ".", " ", "A", "\n">>

PieceThree == <<"3", ".", " ", "B", "\n">>

PieceBlank == <<"2", ".", "\n">>

PieceJunk == <<"x">>

Pieces == {PieceOne, PieceThree, PieceBlank, PieceJunk, ThinkMarker}

RECURSIVE concat(_)
concat(ps) == IF Len(ps) = 0 THEN <<>> ELSE Head(ps) \o concat(Tail(ps))

\* the responses made of at most MaxPieces pieces
ParseResponses ==
    {concat(ps) : ps \in UNION {[1..n -> Pieces] : n \in 0..MaxPieces}}

InitParse ==
    /\ parse \in {[response |-> r, expected_length |-> n, parsed |-> <<>>,
                   done |-> FALSE] :
                     r \in ParseResponses, n \in 0..MaxExpected}
    /\ input_file = <<>>
    /\ input_readable = TRUE
    /\ chunk_size = 1
    /\ max_workers = 1
    /\ pc = "idle"
    /\ FreshLocals
    /\ dir = NoDir

\* translate_batch, line 37: the response of the remote call is parsed
ParseResponse ==
    /\ ~parse.done
    /\ parse' = [parse EXCEPT
                   !.parsed = _parse_response(parse.response, parse.expected_length),
                   !.done = TRUE]
    /\ UNCHANGED <<input_file, input_readable, chunk_size, max_workers, pc,
                   lines, pending_lines, chunks, futures, all_translations,
                   final_lines, output_file, dir>>

NextParse == ParseResponse

SpecParse == InitParse /\ [][NextParse]_vars

\* ------------------------------------------------------------- properties
Finished(c) == futures[c].st \in {"done", "merging", "merged"}

\* number of numbered lines of the response accepted for chunk c
NumberedLines(c) == Len(parsed_lines_of(futures[c].response))

\* the chunks whose accepted response had too few, too many numbered lines,
\* and the chunks that fell back to the original texts
TooFew == {c \in 1..Len(futures) :
              futures[c].accepted /\ NumberedLines(c) < Len(chunks[c])}

TooMany == {c \in 1..Len(futures) :
               futures[c].accepted /\ NumberedLines(c) > Len(chunks[c])}

FellBack == {c \in 1..Len(futures) : Finished(c) /\ ~futures[c].accepted}

\* C1: for a positive chunk_size, the lines do_translate writes are as many
\* as the lines it read, in the list it builds and in the text it writes
Thm_C1_SameLineCount ==
    (pc = "written" /\ chunk_size > 0) =>
        /\ Len(final_lines) = Len(lines)
        /\ Len(lines) = Len(input_file)
        /\ Len(lines) > 0 => Len(split(output_file.content, "\n")) = Len(lines)

\* a written file with two chunks, one answered with too few numbered lines
\* or fallen back, the other answered with too many
Wit_C1_SameLineCount ==
    /\ pc = "written"
    /\ chunk_size > 0
    /\ Len(chunks) >= 2
    /\ TooMany # {}
    /\ FellBack # {}

\* C2: the written line at every structural position is the input line
Thm_C2_StructuralUnchanged ==
    pc = "written" =>
        \A i \in 1..Len(lines) :
            ~should_translate(lines[i]) =>
                /\ i <= Len(final_lines)
                /\ final_lines[i] = lines[i]
                /\ final_lines[i] = rstrip_newline(input_file[i])

\* a written file with a structural line before a translated line
Wit_C2_StructuralUnchanged ==
    /\ pc = "written"
    /\ Len(lines) >= 2
    /\ ~should_translate(lines[1])
    /\ 1 \in DOMAIN all_translations
    /\ final_lines[2] # lines[2]

\* C3: whatever the order of the merges, the position of the j-th pending
\* line of a merged chunk holds the j-th text translate_batch returned for
\* that chunk, in the mapping and then in the written lines
Thm_C3_OrderIndependent ==
    \A c \in 1..Len(futures) :
        futures[c].st = "merged" =>
            /\ Len(futures[c].translated_texts) = Len(chunks[c])
            /\ \A j \in 1..Len(chunks[c]) :
                  LET idx == chunks[c][j][1]
                  IN  /\ idx \in DOMAIN all_translations
                      /\ all_translations[idx] = futures[c].translated_texts[j]
                      /\ pc = "written" =>
                            final_lines[idx + 1] = futures[c].translated_texts[j]

\* the second chunk was merged before the first, which has finished with
\* other texts and is still to be merged
Wit_C3_OrderIndependent ==
    /\ Len(futures) >= 2
    /\ futures[2].st = "merged"
    /\ futures[1].st = "done"
    /\ futures[1].translated_texts # futures[2].translated_texts
    /\ futures[1].accepted
    /\ futures[2].accepted

\* C4: a response with fewer numbered lines than texts requested is never
\* the one translate_batch returns the parse of
Cex_C4_TooFewRejected == TooFew = {}

\* C5: no text returned by translate_batch and no written line is the
\* padding sentinel
Cex_C5_NoSentinel ==
    /\ \A c \in 1..Len(futures) :
          \A j \in 1..Len(futures[c].translated_texts) :
              futures[c].translated_texts[j] # ParseError
    /\ \A i \in 1..Len(final_lines) : final_lines[i] # ParseError

Cex_C7_NeverBlank ==
    pc = "written" =>
        \A i \in 1..Len(lines) :
            should_translate(lines[i]) => Len(final_lines[i]) > 0

\* C8: a response with more numbered lines than texts requested is never
\* the one translate_batch returns the parse of
Cex_C8_TooManyRejected == TooMany = {}

\* concatenation of the chunks, in order
RECURSIVE Concat(_)
Concat(cs) == IF Len(cs) = 0 THEN <<>> ELSE Head(cs) \o Concat(Tail(cs))

\* C9: for a size S >= 1, N pending lines give ceil(N/S) chunks, all of S
\* elements except the last, which has 1 to S, and their concatenation is
\* the sequence of pending lines
Thm_C9_ChunksPartition ==
    (pc # "start" /\ chunk_size >= 1) =>
        LET N == Len(pending_lines)
            S == chunk_size
        IN  /\ pc # "raised"
            /\ Len(chunks) = (N + S - 1) \div S
            /\ \A k \in 1..Len(chunks) :
                  /\ k < Len(chunks) => Len(chunks[k]) = S
                  /\ Len(chunks[k]) >= 1
                  /\ Len(chunks[k]) <= S
            /\ Concat(chunks) = pending_lines

\* five pending lines cut by two: two full chunks and a shorter last one
Wit_C9_ChunksPartition ==
    /\ pc # "start"
    /\ chunk_size = 2
    /\ Len(pending_lines) = 5
    /\ Len(chunks) = 3
    /\ Len(chunks[3]) = 1

\* C10: once split_into_chunks has been called with a size <= 0, it has
\* raised and do_translate has stopped there
Cex_C10_NonPositiveRejected ==
    (pc # "start" /\ chunk_size <= 0) => pc = "raised"


\* C11: from the moment the output file of a listed file exists, it keeps
\* its content and translate_batch is not invoked for that file; skipping
\* an entry leaves process_directory in its loop
Thm_C11_ExistingOutputUntouched ==
    [][/\ \A n \in DOMAIN dir.out :
             n \in DOMAIN dir'.out /\ dir'.out[n] = dir.out[n]
       /\ \A k \in 1..Len(dir.listing) :
             output_name(dir.listing[k]) \in DOMAIN dir.out =>
                 dir'.invoked[k] = dir.invoked[k]
       /\ \A k \in 1..Len(dir.listing) :
             (/\ dir.cursor = k - 1
              /\ dir'.cursor = k
              /\ output_name(dir.listing[k]) \in DOMAIN dir.out)
                 => pc' = "idle"]_vars

\* the first entry was skipped because its output was there, untouched and
\* without a call of translate_batch, and the second entry was translated
Wit_C11_ExistingOutputUntouched ==
    /\ Len(dir.listing) = 2
    /\ dir.cursor = 2
    /\ pc = "written"
    /\ eligible(dir.listing[1])
    /\ output_name(dir.listing[1]) \in DOMAIN dir.out
    /\ dir.out[output_name(dir.listing[1])] = OldContent
    /\ dir.invoked[1] = 0
    /\ dir.invoked[2] > 0
    /\ output_name(dir.listing[2]) \in DOMAIN dir.out

\* number of remote calls made so far for the chunks from c on
RECURSIVE RemoteCalls(_)
RemoteCalls(c) ==
    IF c > Len(futures) THEN 0 ELSE futures[c].attempt + RemoteCalls(c + 1)

\* C12: translate_batch is invoked once per chunk, with all its texts; it
\* makes its remote calls one at a time, at most 3, and none once it has
\* returned; a written file took between 1 and 3 remote calls per chunk
Thm_C12_CallsPerChunk ==
    /\ [](\A c \in 1..Len(futures) :
            /\ futures[c].batches = (IF futures[c].st = "queued" THEN 0 ELSE 1)
            /\ futures[c].attempt <= max_retries
            /\ futures[c].st = "queued" => futures[c].attempt = 0
            /\ Finished(c) =>
                  /\ futures[c].attempt >= 1
                  /\ Len(futures[c].translated_texts) = Len(texts_of(chunks[c])))
    /\ [](pc = "written" =>
            /\ RemoteCalls(1) >= Len(chunks)
            /\ RemoteCalls(1) <= max_retries * Len(chunks))
    /\ [][\A c \in 1..Len(futures) :
            /\ futures'[c].attempt \in {futures[c].attempt, futures[c].attempt + 1}
            /\ Finished(c) =>
                  /\ futures'[c].attempt = futures[c].attempt
                  /\ futures'[c].batches = futures[c].batches]_vars

\* a written file of two chunks: one accepted at its third remote call, the
\* other at its first
Wit_C12_CallsPerChunk ==
    /\ pc = "written"
    /\ Len(futures) = 2
    /\ futures[1].accepted
    /\ futures[1].attempt = 3
    /\ futures[2].accepted
    /\ futures[2].attempt = 1
    /\ RemoteCalls(1) = 4

\* the file positions of the pending lines
PendingPositions == {pending_lines[i][1] : i \in 1..Len(pending_lines)}

\* C13: the keys of all_translations are positions of pending lines, those
\* of the merged chunks; no two chunks bring the same position, a merge
\* writes only positions that have no value yet, and a position that has a
\* value keeps it
Thm_C13_MappingInvariant ==
    /\ [](/\ DOMAIN all_translations \subseteq PendingPositions
          /\ DOMAIN all_translations =
                UNION {DOMAIN futures[c].translations :
                          c \in {d \in 1..Len(futures) : futures[d].st = "merged"}}
          /\ \A c, d \in 1..Len(futures) :
                c # d => (DOMAIN futures[c].translations)
                           \cap (DOMAIN futures[d].translations) = {})
    /\ [][/\ \A p \in DOMAIN all_translations :
                /\ p \in DOMAIN all_translations'
                /\ all_translations'[p] = all_translations[p]
          /\ \A c \in 1..Len(futures) :
                (futures[c].st = "merging" /\ futures'[c].st = "merged") =>
                    /\ (DOMAIN futures[c].translations)
                          \cap (DOMAIN all_translations) = {}
                    /\ DOMAIN futures[c].translations \subseteq
                          DOMAIN all_translations']_vars

\* two chunks have been merged and each has its own position in the mapping
Wit_C13_MappingInvariant ==
    /\ Len(futures) = 2
    /\ futures[1].st = "merged"
    /\ futures[2].st = "merged"
    /\ DOMAIN all_translations = {0, 1}
    /\ all_translations[0] # all_translations[1]
    /\ pc = "pool"

\* the chunks whose merge is in progress
Merging == {c \in 1..Len(futures) : futures[c].st = "merging"}

\* C14: at most one merge into all_translations is in progress at any time,
\* the mapping changes only in the step that ends that merge, and a step of
\* a worker (a chunk starting, or an attempt of translate_batch) leaves it
\* as it is
Thm_C14_MergeRaceFree ==
    /\ [](Cardinality(Merging) <= 1)
    /\ [][/\ all_translations' # all_translations =>
                \E c \in Merging :
                    /\ futures'[c].st = "merged"
                    /\ \A d \in 1..Len(futures) : d # c => futures'[d] = futures[d]
          /\ \A c \in 1..Len(futures) :
                (futures[c].st \in {"queued", "running"} /\ futures'[c] # futures[c])
                    => all_translations' = all_translations]_vars

\* one chunk is being merged while another has finished too: two results
\* are there at the same time
Wit_C14_MergeRaceFree ==
    /\ Len(futures) = 2
    /\ max_workers = 2
    /\ \E c, d \in 1..2 :
          /\ futures[c].st = "merging"
          /\ futures[d].st = "done"

\* C15: with fair workers and remote calls that return, the pool is left
\* in the end and the file is written, whatever the outcome of each chunk;
\* it is written only when every submitted chunk has been merged, and once
Thm_C15_NoAbort ==
    /\ (pc = "pool") ~> (pc = "written")
    /\ [](output_file.exists =>
             /\ pc = "written"
             /\ \A c \in 1..Len(futures) : futures[c].st = "merged")
    /\ [][output_file.exists => output_file' = output_file]_vars

\* the file is written although one of its two chunks fell back to the
\* original text after three failed attempts
Wit_C15_NoAbort ==
    /\ pc = "written"
    /\ output_file.exists
    /\ Len(futures) = 2
    /\ \E c, d \in 1..2 :
          /\ ~futures[c].accepted
          /\ futures[c].attempt = max_retries
          /\ futures[d].accepted
          /\ final_lines[chunks[c][1][1] + 1] = lines[chunks[c][1][1] + 1]
          /\ final_lines[chunks[d][1][1] + 1] # lines[chunks[d][1][1] + 1]

\* C16: the chunks whose translate_chunk call has started and has not
\* returned are never more than max_workers; the others wait in the queue
\* in the order of submission
Thm_C16_BoundedInFlight ==
    /\ Cardinality({c \in 1..Len(futures) : futures[c].st = "running"}) <= max_workers
    /\ \A c, d \in 1..Len(futures) :
          (c < d /\ futures[c].st = "queued") => futures[d].st = "queued"

\* the only worker is at the third remote call of the first chunk and the
\* second chunk waits in the queue
Wit_C16_BoundedInFlight ==
    /\ max_workers = 1
    /\ Len(futures) = 2
    /\ futures[1].st = "running"
    /\ futures[1].attempt = 2
    /\ futures[2].st = "queued"

\* C19: when the input file of the current entry cannot be read,
\* do_translate raises before any chunk is submitted: translate_batch is
\* not invoked for the entry, its output file is neither created nor
\* modified, and nothing runs afterwards, neither a retry nor a next entry
Thm_C19_ReadErrorPropagates ==
    /\ []((dir.cursor > 0 /\ ~input_readable /\ pc # "start") =>
            /\ pc = "raised"
            /\ futures = <<>>
            /\ ~output_file.exists
            /\ dir.invoked[dir.cursor] = 0
            /\ output_name(dir.listing[dir.cursor]) \notin DOMAIN dir.out)
    /\ [][pc = "raised" => (pc' = "raised" /\ dir' = dir)]_vars

\* the second entry of a directory cannot be read, after the first one was
\* translated and written
Wit_C19_ReadErrorPropagates ==
    /\ pc = "raised"
    /\ ~input_readable
    /\ dir.cursor = 2
    /\ dir.invoked[1] > 0
    /\ dir.invoked[2] = 0
    /\ DOMAIN dir.out = {output_name(dir.listing[1])}

\* the text after the last occurrence of the marker, the whole response
\* when there is none
RECURSIVE after_last_think(_)
after_last_think(response) ==
    IF find(response, ThinkMarker) = 0 THEN response
    ELSE after_last_think(after_think(response))

\* C17: what _parse_response returns is what the text after the last
\* marker alone gives
Cex_C17_AfterLastMarker ==
    parse.done =>
        parse.parsed =
            _parse_response(after_last_think(parse.response), parse.expected_length)

\* the lines of the response that _parse_response scans, and the places of
\* those that start with digits followed by "."
ScannedLines == split(strip(after_think(parse.response)), "\n")

NumberedPlaces == {i \in 1..Len(ScannedLines) : numbered(ScannedLines[i])}

\* the place of the k-th numbered line
KthNumbered(k) ==
    CHOOSE i \in NumberedPlaces :
        Cardinality({j \in NumberedPlaces : j <= i}) = k

\* C18: the k-th requested text is the text of the k-th numbered line of
\* the response, whatever its number, and the sentinel when there are
\* fewer than k numbered lines; "3. B" then "1. A" gives B then A
Thm_C18_PositionalOrder ==
    parse.done =>
        /\ \A k \in 1..parse.expected_length :
              /\ k <= Len(parse.parsed)
              /\ parse.parsed[k] =
                    IF k <= Cardinality(NumberedPlaces)
                    THEN numbered_text(ScannedLines[KthNumbered(k)])
                    ELSE ParseError
        /\ (parse.response = PieceThree \o PieceOne /\ parse.expected_length = 2)
              => parse.parsed = << <<"B">>, <<"A">> >>

\* "3. B" then a line without number then "1. A", parsed for two texts
Wit_C18_PositionalOrder ==
    /\ parse.done
    /\ parse.response = PieceThree \o PieceJunk \o <<"\n">> \o PieceOne
       \/ parse.response = PieceThree \o PieceOne
    /\ parse.expected_length = 2
    /\ parse.parsed = << <<"B">>, <<"A">> >>

\* C20: _parse_response returns exactly expected_length elements, so the
\* validation of translate_batch accepts it and the attempt returns it
Thm_C20_ParseLength ==
    parse.done =>
        LET texts == [k \in 1..parse.expected_length |-> <<"H", "i">>]
        IN  /\ Len(parse.parsed) = parse.expected_length
            /\ _is_valid_translation(texts, parse.parsed)
            /\ attempt_result(texts, [kind |-> "text", content |-> parse.response])
                  = [returned |-> TRUE, value |-> parse.parsed]

\* a response with three numbered lines parsed for two texts, and one with
\* no numbered line parsed for two texts
Wit_C20_ParseLength ==
    /\ parse.done
    /\ parse.expected_length = 2
    /\ Len(parse.parsed) = 2
    /\ Cardinality(NumberedPlaces) \in {0, 3}

====
